---- MODULE Spec2Model ----
(***************************************************************************)
(* gcsproxy: an HTTP proxy in front of Google Cloud Storage.               *)
(*                                                                         *)
(* Two state machines share this module:                                   *)
(*   SpecReadiness  the /readiness handler: the goroutine-per-bucket       *)
(*                  fan-out of main.go:526-561 and the sequential loop of  *)
(*                  main.go:184-206;                                       *)
(*   Spec           the object dispatcher (proxy) in its three revisions,  *)
(*                  behind the mux router, over a flat object store.       *)
(***************************************************************************)
EXTENDS Integers, Sequences, FiniteSets, TLC

VARIABLES
    \* ---- readiness prober -------------------------------------------------
    rrev,        \* which readinessProbeHandler runs: "seq" or "conc"
    bucketList,  \* the bucket names probed, in configured order
    fetchOK,     \* bucket name -> TRUE iff client.Bucket(b).Attrs succeeds
    ppc,         \* goroutine i: "idle" | "fetching" | "fetched" | "done"
    pres,        \* goroutine i: the bucketResponse it built (br)
    ch,          \* the buffered channel, a FIFO of bucketResponse
    hpc,         \* handler: "idle" | "seq" | "recv" | "check" | "done"
    hi,          \* handler loop index (iterations completed)
    br,          \* the bucketResponse the handler received last
    nrecv,       \* number of receives `<-ch` the handler has executed
    rstatus,     \* status the ResponseWriter holds (200 until WriteHeader)
    \* ---- object dispatcher ------------------------------------------------
    rev,          \* which revision of proxy is running: 1, 2 or 3
    signedUrlGet, \* --get-signed-url
    store,        \* contents of the existing bucket: name -> <<>> or <<content>>
    uploaded,     \* name -> what the last acknowledged upload held
    alive,        \* FALSE once log.Fatal has ended the process
    req,          \* the request in hand
    resp          \* its response: status, header, body, backend calls, outcome

rvars == <<rrev, bucketList, fetchOK, ppc, pres, ch, hpc, hi, br, nrecv, rstatus>>
pvars == <<rev, signedUrlGet, store, uploaded, alive, req, resp>>
vars  == <<rvars, pvars>>

----------------------------------------------------------------------------
(* HTTP status codes used by the handlers *)
StatusOK == 200
StatusTemporaryRedirect == 307
StatusNotFound == 404
StatusMethodNotAllowed == 405
StatusInternalServerError == 500
StatusServiceUnavailable == 503

----------------------------------------------------------------------------
(* Strings.  Object names are sequences of one-character strings, so that  *)
(* the prefix, split and ordering operations of the code can be computed.  *)

Chars == {"-", "/", "a", "b", "c", "d"}

\* byte value of a character: the listing order of the backend is byte order
Code(c) ==
    CASE c = "-" -> 45
      [] c = "/" -> 47
      [] c = "a" -> 97
      [] c = "b" -> 98
      [] c = "c" -> 99
      [] c = "d" -> 100

\* s < t in lexicographic byte order
RECURSIVE Less(_, _)
Less(s, t) ==
    IF t = <<>> THEN FALSE
    ELSE IF s = <<>> THEN TRUE
    ELSE IF Head(s) = Head(t) THEN Less(Tail(s), Tail(t))
    ELSE Code(Head(s)) < Code(Head(t))

\* strings.HasPrefix
HasPrefix(s, p) == Len(p) <= Len(s) /\ SubSeq(s, 1, Len(p)) = p

\* strings.TrimPrefix
TrimPrefix(s, p) == IF HasPrefix(s, p) THEN SubSeq(s, Len(p) + 1, Len(s)) ELSE s

\* strings.Split(s, "/"): the segments between separators, at least one
RECURSIVE SplitFrom(_, _, _)
SplitFrom(s, i, cur) ==
    IF i > Len(s) THEN <<cur>>
    ELSE IF s[i] = "/" THEN <<cur>> \o SplitFrom(s, i + 1, <<>>)
    ELSE SplitFrom(s, i + 1, Append(cur, s[i]))

Split(s) == SplitFrom(s, 1, <<>>)

\* prefix[len(prefix)-1:] != "/"
LacksSlash(prefix) == Len(prefix) # 0 /\ prefix[Len(prefix)] # "/"

Digit == <<"0", "1", "2", "3", "4", "5", "6", "7", "8", "9">>

\* strconv.FormatInt(value, 10) for value >= 0
RECURSIVE FormatInt(_)
FormatInt(n) ==
    IF n < 10 THEN Digit[n + 1]
    ELSE FormatInt(n \div 10) \o Digit[(n % 10) + 1]

----------------------------------------------------------------------------
(* The storage backend (cloud.google.com/go/storage), as the handlers see  *)
(* it: one existing bucket holding a flat name -> content map, and one     *)
(* bucket name that does not exist.                                        *)

\* Longest request body / object content explored.
MaxBody == 1

Bodies == { [i \in 1..n |-> i] : n \in 0..MaxBody }

RealBucket == "bkt"
GhostBucket == "ghost"

K_d   == <<"d">>
K_dS  == <<"d", "/">>
K_da  == <<"d", "/", "a">>
K_dbc == <<"d", "/", "b", "/", "c">>
K_dx  == <<"d", "-", "a">>

\* names an object can have in this model
StoreKeys == {K_d, K_dS, K_da, K_dbc, K_dx}

\* {object:.*} of the route also matches the empty name
RequestKeys == StoreKeys \cup {<<>>}

\* store[k] is <<>> when no object k exists and <<content>> when it does
EmptyStore == [k \in StoreKeys |-> <<>>]

Exists(st, bucket, key) ==
    bucket = RealBucket /\ key \in StoreKeys /\ st[key] # <<>>

nil == "nil"
ErrObjectNotExist == "storage: object doesn't exist"
ErrBucketNotExist == "storage: bucket doesn't exist"
ErrEmptyName      == "storage: object name is empty"
ErrBackend        == "googleapi: backend error"
ErrNoBucket       == "googleapi: Error 404: Not Found"
ErrSign           == "storage.SignedURL: error"
ErrRead           == "unexpected EOF"

\* errors that mean the object or the bucket is absent
AbsentErrors == {ErrObjectNotExist, ErrBucketNotExist, ErrNoBucket}

NoAttrs == [Name |-> <<>>, Size |-> 0]

\* obj.Attrs(ctx): argument validation, then the metadata call
ObjAttrs(st, bucket, key, fault) ==
    IF key = <<>> THEN [err |-> ErrEmptyName, attr |-> NoAttrs]
    ELSE IF fault = "attrs" THEN [err |-> ErrBackend, attr |-> NoAttrs]
    ELSE IF ~Exists(st, bucket, key) THEN [err |-> ErrObjectNotExist, attr |-> NoAttrs]
    ELSE [err |-> nil, attr |-> [Name |-> key, Size |-> Len(st[key][1])]]

\* obj.NewReader(ctx): the object may be gone since Attrs ("readerGone")
ObjNewReader(st, bucket, key, fault) ==
    IF key = <<>> THEN [err |-> ErrEmptyName, data |-> <<>>]
    ELSE IF fault = "reader" THEN [err |-> ErrBackend, data |-> <<>>]
    ELSE IF fault = "readerGone" \/ ~Exists(st, bucket, key)
         THEN [err |-> ErrObjectNotExist, data |-> <<>>]
    ELSE [err |-> nil, data |-> st[key][1]]

\* the names in S in increasing byte order
RECURSIVE SortKeys(_)
SortKeys(S) ==
    IF S = {} THEN <<>>
    ELSE LET m == CHOOSE x \in S : \A y \in S : x = y \/ Less(x, y)
         IN  <<m>> \o SortKeys(S \ {m})

\* bkt.Objects(ctx, &storage.Query{Prefix: prefix}) drained by it.Next():
\* the attributes of every object whose name starts with prefix, in the
\* backend's (lexicographic) order, or the error the iteration ends with.
Objects(st, bucket, prefix, failing) ==
    IF bucket # RealBucket THEN [err |-> ErrBucketNotExist, items |-> <<>>]
    ELSE IF failing THEN [err |-> ErrBackend, items |-> <<>>]
    ELSE LET ks == SortKeys({k \in StoreKeys : st[k] # <<>> /\ HasPrefix(k, prefix)})
         IN  [err |-> nil,
              items |-> [i \in 1..Len(ks) |-> [Name |-> ks[i], Size |-> Len(st[ks[i]][1])]]]

\* wc.Write(fileData) then wc.Close(): the object is created or replaced
\* when Close succeeds.
ObjWriteClose(st, bucket, key, data, fault) ==
    IF key = <<>> THEN [err |-> ErrEmptyName, store |-> st]
    ELSE IF fault = "close" THEN [err |-> ErrBackend, store |-> st]
    ELSE IF bucket # RealBucket THEN [err |-> ErrNoBucket, store |-> st]
    ELSE [err |-> nil, store |-> [st EXCEPT ![key] = <<data>>]]

\* obj.Delete(ctx)
ObjDelete(st, bucket, key, fault) ==
    IF key = <<>> THEN [err |-> ErrEmptyName, store |-> st]
    ELSE IF fault = "delete" THEN [err |-> ErrBackend, store |-> st]
    ELSE IF ~Exists(st, bucket, key) THEN [err |-> ErrObjectNotExist, store |-> st]
    ELSE [err |-> nil, store |-> [st EXCEPT ![key] = <<>>]]

\* storage.SignedURL(bucket, object, opts): a URL naming bucket and object
SignedURL(bucket, key, fault) ==
    IF fault = "sign" THEN [err |-> ErrSign, url |-> [kind |-> "none", bucket |-> bucket, path |-> key]]
    ELSE [err |-> nil, url |-> [kind |-> "signed", bucket |-> bucket, path |-> key]]

----------------------------------------------------------------------------
(* http.ResponseWriter *)

HeaderKeys == {"Content-Type", "Content-Length", "Location"}

\* a fresh writer: no status written yet (0), no header, no body
NewResponse == [status |-> 0, header |-> [k \in HeaderKeys |-> <<>>], body |-> <<>>]

\* w.Header().Add(key, value)
HeaderAdd(w, key, value) == [w EXCEPT !.header[key] = Append(@, value)]

\* w.Header().Set(key, value)
HeaderSet(w, key, value) == [w EXCEPT !.header[key] = <<value>>]

\* w.WriteHeader(status): the first call decides
WriteHeader(w, status) == IF w.status = 0 THEN [w EXCEPT !.status = status] ELSE w

\* w.Write(chunk): writes the 200 header if none was written; the body of
\* a response to HEAD is dropped by net/http
Write(w, method, chunk) ==
    LET w1 == WriteHeader(w, StatusOK)
    IN  IF method = "HEAD" THEN w1 ELSE [w1 EXCEPT !.body = Append(@, chunk)]

TextChunk(msg) == [kind |-> "text", text |-> msg]
BytesChunk(data) == [kind |-> "bytes", data |-> data]
JSONChunk(attr) == [kind |-> "json", attr |-> attr]
RedirectChunk(url) == [kind |-> "redirect", url |-> url]
IndexChunk(prefix, items) == [kind |-> "index", Prefix |-> prefix, Items |-> items]

\* http.Error(w, msg, code)
HttpError(w, method, msg, code) ==
    Write(WriteHeader(HeaderSet(w, "Content-Type", "text/plain; charset=utf-8"), code),
          method, TextChunk(msg))

\* http.Redirect(w, r, url, code)
HttpRedirect(w, method, url, code) ==
    LET hadCT == w.header["Content-Type"] # <<>>
        w1 == HeaderSet(w, "Location", url)
        w2 == IF ~hadCT /\ method \in {"GET", "HEAD"}
              THEN HeaderSet(w1, "Content-Type", "text/html; charset=utf-8") ELSE w1
        w3 == WriteHeader(w2, code)
    IN  IF ~hadCT /\ method = "GET" THEN Write(w3, method, RedirectChunk(url)) ELSE w3

handleError_Always500(w, method, err) ==
    IF err # nil THEN HttpError(w, method, err, StatusInternalServerError) ELSE w

handleError(w, method, err) ==
    IF err # nil
    THEN IF err = ErrObjectNotExist
         THEN HttpError(w, method, err, StatusNotFound)
         ELSE HttpError(w, method, err, StatusInternalServerError)
    ELSE w

setStrHeader(w, key, value) ==
    IF value # "" THEN HeaderAdd(w, key, value) ELSE w

setIntHeader_Always(w, key, value) == HeaderAdd(w, key, FormatInt(value))

setIntHeader(w, key, value) ==
    IF value > 0 THEN HeaderAdd(w, key, FormatInt(value)) ELSE w

----------------------------------------------------------------------------
(* The handlers.  A request r is                                            *)
(*   [method, bucket, object, query, body, fault, via]                      *)
(* where fault names the one backend call that fails if the handler makes   *)
(* it ("none": the backend answers every call).  A handler yields           *)
(*   [w, store, ops, errs, outcome]                                         *)
(* the response written, the store afterwards, the backend calls made, the  *)
(* errors they returned, and how the handler ended: "sent" (returned),     *)
(* "panic" (the goroutine panicked; net/http drops the connection) or      *)
(* "exit" (log.Fatal ended the process).                                    *)

Op(name, arg) == [op |-> name, arg |-> arg]

Result(w, st, ops, errs, outcome) ==
    [w |-> w, store |-> st, ops |-> ops, errs |-> errs, outcome |-> outcome]

\* u.Query().Get("alt")
QueryAlt(query) ==
    CASE query = "alt=media" -> "media"
      [] query = "alt=json"  -> "json"
      [] OTHER               -> ""

\* r.RequestURI + "/": the slash lands after the query when there is one
SlashURI(r) ==
    IF r.query = ""
    THEN [kind |-> "uri", bucket |-> r.bucket, path |-> Append(r.object, "/"), query |-> ""]
    ELSE [kind |-> "uri", bucket |-> r.bucket, path |-> r.object, query |-> r.query \o "/"]

\* the attribute headers and io.Copy(w, objr); the objects of this model
\* carry no content type, language, cache control, encoding or disposition
StreamObject(w, method, attr, data) ==
    LET w1 == setStrHeader(w, "Content-Type", "")
        w2 == setIntHeader(w1, "Content-Length", attr.Size)
    IN  Write(w2, method, BytesChunk(data))

\* case http.MethodGet, http.MethodHead of the alt=media revision
proxyGetAlt_IgnoreAlt(w, r, st) ==
    LET a  == ObjAttrs(st, r.bucket, r.object, r.fault)
        rd == ObjNewReader(st, r.bucket, r.object, r.fault)
        o1 == <<Op("Attrs", r.object)>>
        o2 == Append(o1, Op("NewReader", r.object))
    IN  IF a.err # nil THEN Result(handleError(w, r.method, a.err), st, o1, <<a.err>>, "sent")
        ELSE IF rd.err # nil THEN Result(handleError(w, r.method, rd.err), st, o2, <<rd.err>>, "sent")
        ELSE Result(StreamObject(w, r.method, a.attr, rd.data), st, o2, <<>>, "sent")

proxyGetAlt(w, r, st) ==
    LET a  == ObjAttrs(st, r.bucket, r.object, r.fault)
        rd == ObjNewReader(st, r.bucket, r.object, r.fault)
        o1 == <<Op("Attrs", r.object)>>
        o2 == Append(o1, Op("NewReader", r.object))
    IN  IF a.err # nil THEN Result(handleError(w, r.method, a.err), st, o1, <<a.err>>, "sent")
        ELSE IF rd.err # nil THEN Result(handleError(w, r.method, rd.err), st, o2, <<rd.err>>, "sent")
        ELSE IF QueryAlt(r.query) # "media"
        THEN Result(Write(setStrHeader(w, "Content-Type", "application/json"),
                          r.method, JSONChunk(a.attr)),
                    st, o2, <<>>, "sent")
        ELSE Result(StreamObject(w, r.method, a.attr, rd.data), st, o2, <<>>, "sent")

\* if *signedUrlGet { redirect to generateV4GetObjectSignedURL } else { stream }
SignedOrStream_AlwaysStream(w, r, st, signed, attr, data, ops, errs) ==
    Result(StreamObject(w, r.method, attr, data), st, ops, errs, "sent")

SignedOrStream(w, r, st, signed, attr, data, ops, errs) ==
    IF signed
    THEN LET s == SignedURL(r.bucket, r.object, r.fault)
         IN  IF s.err # nil
             THEN Result(handleError(w, r.method, s.err), st, ops, errs, "sent")
             ELSE Result(HttpRedirect(w, r.method, s.url, StatusTemporaryRedirect),
                         st, ops, errs, "sent")
    ELSE Result(StreamObject(w, r.method, attr, data), st, ops, errs, "sent")

\* case http.MethodGet, http.MethodHead of the signed-URL revision
proxyGetSigned(w, r, st, signed) ==
    LET a  == ObjAttrs(st, r.bucket, r.object, r.fault)
        rd == ObjNewReader(st, r.bucket, r.object, r.fault)
        o1 == <<Op("Attrs", r.object)>>
        o2 == Append(o1, Op("NewReader", r.object))
    IN  IF a.err # nil THEN Result(handleError(w, r.method, a.err), st, o1, <<a.err>>, "sent")
        ELSE IF rd.err # nil THEN Result(handleError(w, r.method, rd.err), st, o2, <<rd.err>>, "sent")
        ELSE SignedOrStream(w, r, st, signed, a.attr, rd.data, o2, <<>>)

\* getFile: as above, but `defer objr.Close()` is placed before the error
\* check, so a failed NewReader leaves a nil *Reader whose deferred Close
\* dereferences nil when getFile returns
getFile(w, r, st, signed, ops, errs) ==
    LET a  == ObjAttrs(st, r.bucket, r.object, r.fault)
        rd == ObjNewReader(st, r.bucket, r.object, r.fault)
        o1 == Append(ops, Op("Attrs", r.object))
        o2 == Append(o1, Op("NewReader", r.object))
    IN  IF a.err # nil
        THEN Result(handleError(w, r.method, a.err), st, o1, Append(errs, a.err), "sent")
        ELSE IF rd.err # nil
        THEN Result(handleError(w, r.method, rd.err), st, o2, Append(errs, rd.err), "panic")
        ELSE SignedOrStream(w, r, st, signed, a.attr, rd.data, o2, errs)

\* the loop of getDir over the listing: first path segment after the prefix,
\* skipping the prefix object itself and a name equal to the previous one
RECURSIVE DirItems(_, _, _, _)
DirItems(list, i, prefix, lastName) ==
    IF i > Len(list) THEN <<>>
    ELSE LET name0     == TrimPrefix(list[i].Name, prefix)
             nameParts == Split(name0)
             name      == nameParts[1]
         IN  IF Len(name0) = 0 THEN DirItems(list, i + 1, prefix, lastName)
             ELSE IF name = lastName THEN DirItems(list, i + 1, prefix, lastName)
             ELSE <<[RelativePath |-> name,
                     ModifiedDate |-> "created",
                     SizeBytes    |-> IF Len(nameParts) > 1 THEN "-"
                                      ELSE FormatInt(list[i].Size)]>>
                  \o DirItems(list, i + 1, prefix, name)

\* getDir: the redirect for a prefix without trailing slash is not followed
\* by a return, so the listing and the template run on every call
getDir(w, r, st, ops, errs) ==
    LET prefix == r.object
        w1 == IF LacksSlash(prefix)
              THEN HttpRedirect(w, r.method, SlashURI(r), StatusTemporaryRedirect)
              ELSE w
        it == Objects(st, r.bucket, prefix, r.fault = "getDir")
        o1 == Append(ops, Op("List", prefix))
    IN  IF it.err # nil
        THEN Result(w1, st, o1, Append(errs, it.err), "exit")
        ELSE Result(Write(w1, r.method,
                          IndexChunk(IF prefix = <<>> THEN <<"/">> ELSE prefix,
                                     DirItems(it.items, 1, prefix, <<>>))),
                    st, o1, errs, "sent")

\* the prefix isDirectory lists
DirPrefix(prefix) == IF LacksSlash(prefix) THEN Append(prefix, "/") ELSE prefix

\* isDirectory: item, _ := bkt.Objects(ctx, query).Next(); return item != nil
isDirectoryIter(st, r) == Objects(st, r.bucket, DirPrefix(r.object), r.fault = "isDirectory")

isDirectory(st, r) ==
    LET it == isDirectoryIter(st, r) IN it.err = nil /\ Len(it.items) > 0

\* case http.MethodGet, http.MethodHead of the directory revision
proxyGetDir(w, r, st, signed) ==
    LET it == isDirectoryIter(st, r)
        o0 == <<Op("List", DirPrefix(r.object))>>
        e0 == IF it.err # nil THEN <<it.err>> ELSE <<>>
    IN  IF isDirectory(st, r)
        THEN getDir(w, r, st, o0, e0)
        ELSE getFile(w, r, st, signed, o0, e0)

\* case http.MethodPost, http.MethodPut (the same in every revision)
proxyPut_Truncate(w, r, st) ==
    LET c == ObjWriteClose(st, r.bucket, r.object, <<>>, r.fault)
    IN  Result(handleError(w, r.method, c.err), c.store,
               <<Op("Write", r.object), Op("Close", r.object)>>,
               IF c.err = nil THEN <<>> ELSE <<c.err>>, "sent")

proxyPut(w, r, st) ==
    IF r.fault = "readBody"
    THEN Result(handleError(w, r.method, ErrRead), st, <<>>, <<>>, "sent")
    ELSE IF r.fault = "write"
    THEN Result(handleError(w, r.method, ErrBackend), st,
                <<Op("Write", r.object)>>, <<ErrBackend>>, "sent")
    ELSE LET c == ObjWriteClose(st, r.bucket, r.object, r.body, r.fault)
         IN  Result(handleError(w, r.method, c.err), c.store,
                    <<Op("Write", r.object), Op("Close", r.object)>>,
                    IF c.err = nil THEN <<>> ELSE <<c.err>>, "sent")

\* case http.MethodDelete (the same in every revision)
proxyDelete(w, r, st) ==
    LET d == ObjDelete(st, r.bucket, r.object, r.fault)
    IN  Result(handleError(w, r.method, d.err), d.store, <<Op("Delete", r.object)>>,
               IF d.err = nil THEN <<>> ELSE <<d.err>>, "sent")

\* default: http.Error(w, "Method Not Allowed", http.StatusNotFound)
proxyDefault_Accept(w, r, st) == Result(w, st, <<>>, <<>>, "sent")

proxyDefault(w, r, st) ==
    Result(HttpError(w, r.method, "Method Not Allowed", StatusNotFound), st, <<>>, <<>>, "sent")

\* proxy: switch r.Method, in revision rv
\*   1  main.go:113-174       alt=media / JSON metadata
\*   2  main_test.go:185-247  signed-URL mode
\*   3  main.go:479-515       directory listing and signed-URL mode
proxy(w, r, st, rv, signed) ==
    CASE r.method \in {"GET", "HEAD"} ->
            (CASE rv = 1 -> proxyGetAlt(w, r, st)
               [] rv = 2 -> proxyGetSigned(w, r, st, signed)
               [] rv = 3 -> proxyGetDir(w, r, st, signed))
      [] r.method \in {"POST", "PUT"} -> proxyPut(w, r, st)
      [] r.method = "DELETE" -> proxyDelete(w, r, st)
      [] OTHER -> proxyDefault(w, r, st)

\* livenessProbeHandler: `return`; it never touches w, r or the client
livenessProbeHandler_ChecksBackend(w, r, st) ==
    IF r.fault = "none"
    THEN Result(w, st, <<Op("Attrs", r.object)>>, <<>>, "sent")
    ELSE Result(WriteHeader(w, StatusServiceUnavailable), st,
                <<Op("Attrs", r.object)>>, <<ErrBackend>>, "sent")

livenessProbeHandler(w, r, st) == Result(w, st, <<>>, <<>>, "sent")

\* .Methods("GET", "HEAD", "PUT", "POST", "DELETE") of the object route
RouteMethods_Any == {"GET", "HEAD", "PUT", "POST", "DELETE", "PATCH"}

RouteMethods == {"GET", "HEAD", "PUT", "POST", "DELETE"}

\* the mux router in front of proxy: a path that matches the object route
\* with a method the route does not list is answered 405 by the router
router(w, r, st, rv, signed) ==
    IF r.method \in RouteMethods
    THEN proxy(w, r, st, rv, signed)
    ELSE Result(WriteHeader(w, StatusMethodNotAllowed), st, <<>>, <<>>, "sent")

\* wrapper / net/http: a handler that returns without writing a status
\* has answered 200
Finish(res) ==
    [status  |-> IF res.outcome # "sent" THEN 0
                 ELSE IF res.w.status = 0 THEN StatusOK ELSE res.w.status,
     header  |-> res.w.header,
     body    |-> res.w.body,
     ops     |-> res.ops,
     errs    |-> res.errs,
     outcome |-> res.outcome]

----------------------------------------------------------------------------
(* The server: requests are served one at a time; the response to the      *)
(* request in hand stays visible until the exchange completes.             *)

NoRequest ==
    [method |-> "", bucket |-> "", object |-> <<>>, query |-> "", body |-> <<>>,
     fault |-> "none", via |-> "none"]

NoReply ==
    [status |-> 0, header |-> NewResponse.header, body |-> <<>>, ops |-> <<>>,
     errs |-> <<>>, outcome |-> "none"]


----------------------------------------------------------------------------
(* Readiness prober *)

\* Largest number of buckets in --readiness-buckets explored.
MaxProbes == 3

\* googlePublicBuckets, a [3]string: the sequential revision probes exactly
\* these, whatever is configured.
NumPublicBuckets == 3

BucketNames == 1..(IF MaxProbes > NumPublicBuckets THEN MaxProbes ELSE NumPublicBuckets)

NoResponse == [bucketName |-> 0, err |-> FALSE]

\* bucketResponse{bucketName, err}; err is TRUE for a non-nil error.
bucketResponse(b, e) == [bucketName |-> b, err |-> e]

\* strings.Split(*readinessBuckets, ","): never empty; names are 1..n here.
ConfiguredLists == { [i \in 1..n |-> i] : n \in 1..MaxProbes }

\* the dispatcher at rest, for the behaviours of the readiness prober
PIdle ==
    /\ rev = 3
    /\ signedUrlGet = FALSE
    /\ store = EmptyStore
    /\ uploaded = EmptyStore
    /\ alive = TRUE
    /\ req = NoRequest
    /\ resp = NoReply

RInit ==
    /\ PIdle
    /\ rrev \in {"seq", "conc"}
    /\ bucketList \in IF rrev = "seq"
                      THEN { [i \in 1..NumPublicBuckets |-> i] }
                      ELSE ConfiguredLists
    /\ fetchOK \in [BucketNames -> BOOLEAN]
    /\ ppc = [i \in 1..Len(bucketList) |-> "idle"]
    /\ pres = [i \in 1..Len(bucketList) |-> NoResponse]
    /\ ch = <<>>
    /\ hpc = "idle"
    /\ hi = 0
    /\ br = NoResponse
    /\ nrecv = 0
    /\ rstatus = StatusOK

\* make(chan bucketResponse, len(bucketList))
ChanCap_OneShort == Len(bucketList) - 1

ChanCap == Len(bucketList)

\* The request arrives; the concurrent revision runs its first loop, which
\* starts one goroutine per bucket before the first receive.
ReadinessStart ==
    /\ hpc = "idle"
    /\ hpc' = IF rrev = "seq" THEN "seq" ELSE "recv"
    /\ ppc' = IF rrev = "seq" THEN ppc
              ELSE [i \in 1..Len(bucketList) |-> "fetching"]
    /\ UNCHANGED <<rrev, bucketList, fetchOK, pres, ch, hi, br, nrecv, rstatus>>
    /\ UNCHANGED pvars

\* goroutine i: _, err := client.Bucket(bucket).Attrs(ctx); br = {bucket, err}
ProbeFetch(i) ==
    /\ ppc[i] = "fetching"
    /\ pres' = [pres EXCEPT ![i] = bucketResponse(bucketList[i], ~fetchOK[bucketList[i]])]
    /\ ppc' = [ppc EXCEPT ![i] = "fetched"]
    /\ UNCHANGED <<rrev, bucketList, fetchOK, ch, hpc, hi, br, nrecv, rstatus>>
    /\ UNCHANGED pvars

\* goroutine i: ch <- br  (blocks while the buffer is full)
ProbeSend_OnlySuccess(i) ==
    /\ ppc[i] = "fetched"
    /\ Len(ch) < ChanCap
    /\ ch' = IF pres[i].err THEN ch ELSE Append(ch, pres[i])
    /\ ppc' = [ppc EXCEPT ![i] = "done"]
    /\ UNCHANGED <<rrev, bucketList, fetchOK, pres, hpc, hi, br, nrecv, rstatus>>
    /\ UNCHANGED pvars

ProbeSend(i) ==
    /\ ppc[i] = "fetched"
    /\ Len(ch) < ChanCap
    /\ ch' = Append(ch, pres[i])
    /\ ppc' = [ppc EXCEPT ![i] = "done"]
    /\ UNCHANGED <<rrev, bucketList, fetchOK, pres, hpc, hi, br, nrecv, rstatus>>
    /\ UNCHANGED pvars

\* handler: br := <-ch  (blocks while the channel is empty)
HandlerRecv ==
    /\ hpc = "recv"
    /\ ch # <<>>
    /\ br' = Head(ch)
    /\ ch' = Tail(ch)
    /\ nrecv' = nrecv + 1
    /\ hpc' = "check"
    /\ UNCHANGED <<rrev, bucketList, fetchOK, ppc, pres, hi, rstatus>>
    /\ UNCHANGED pvars

\* handler: if br.err == nil { return }; otherwise log and loop; after the
\* loop, w.WriteHeader(http.StatusServiceUnavailable).
HandlerCheck_FirstResultDecides ==
    /\ hpc = "check"
    /\ hpc' = "done"
    /\ hi' = hi + 1
    /\ rstatus' = IF br.err THEN StatusServiceUnavailable ELSE rstatus
    /\ UNCHANGED <<rrev, bucketList, fetchOK, ppc, pres, ch, br, nrecv>>
    /\ UNCHANGED pvars

HandlerCheck_NoEarlyReturn ==
    /\ hpc = "check"
    /\ hi' = hi + 1
    /\ IF hi + 1 = Len(bucketList)
       THEN /\ hpc' = "done"
            /\ rstatus' = IF br.err THEN StatusServiceUnavailable ELSE rstatus
       ELSE /\ hpc' = "recv"
            /\ rstatus' = rstatus
    /\ UNCHANGED <<rrev, bucketList, fetchOK, ppc, pres, ch, br, nrecv>>
    /\ UNCHANGED pvars

HandlerCheck ==
    /\ hpc = "check"
    /\ IF ~br.err
       THEN /\ hpc' = "done"
            /\ UNCHANGED <<hi, rstatus>>
       ELSE /\ hi' = hi + 1
            /\ IF hi + 1 = Len(bucketList)
               THEN /\ hpc' = "done"
                    /\ rstatus' = StatusServiceUnavailable
               ELSE /\ hpc' = "recv"
                    /\ rstatus' = rstatus
    /\ UNCHANGED <<rrev, bucketList, fetchOK, ppc, pres, ch, br, nrecv>>
    /\ UNCHANGED pvars

\* Sequential revision: one iteration of `for _, publicBucket := range
\* googlePublicBuckets`, and after the last one `if err != nil { 503 }`.
SeqProbe ==
    /\ hpc = "seq"
    /\ br' = bucketResponse(bucketList[hi + 1], ~fetchOK[bucketList[hi + 1]])
    /\ IF ~br'.err
       THEN /\ hpc' = "done"
            /\ UNCHANGED <<hi, rstatus>>
       ELSE /\ hi' = hi + 1
            /\ IF hi + 1 = Len(bucketList)
               THEN /\ hpc' = "done"
                    /\ rstatus' = StatusServiceUnavailable
               ELSE /\ hpc' = "seq"
                    /\ rstatus' = rstatus
    /\ UNCHANGED <<rrev, bucketList, fetchOK, ppc, pres, ch, nrecv>>
    /\ UNCHANGED pvars

RNext ==
    \/ ReadinessStart
    \/ \E i \in 1..Len(bucketList) : ProbeFetch(i)
    \/ \E i \in 1..Len(bucketList) : ProbeSend(i)
    \/ HandlerRecv
    \/ HandlerCheck
    \/ SeqProbe

SpecReadiness == RInit /\ [][RNext]_vars

\* the steps of goroutine i, when the list has an i-th bucket
ProbeStep(i) ==
    /\ i \in 1..Len(bucketList)
    /\ (ProbeFetch(i) \/ ProbeSend(i))

\* Fair scheduling: the handler goroutine and every probe goroutine take
\* the step they are able to take; for a probe that includes the return of
\* its metadata fetch.
FairSpecReadiness ==
    /\ RInit
    /\ [][RNext]_vars
    /\ WF_vars(HandlerRecv)
    /\ WF_vars(HandlerCheck)
    /\ WF_vars(SeqProbe)
    /\ \A i \in 1..MaxProbes : WF_vars(ProbeStep(i))

----------------------------------------------------------------------------
(* Claims about the readiness prober *)

AllFail == \A i \in 1..Len(bucketList) : ~fetchOK[bucketList[i]]
SomeOK  == \E i \in 1..Len(bucketList) : fetchOK[bucketList[i]]

\* C1: whenever /readiness has responded, the status is 503 if every
\* bucket's metadata fetch fails and 200 if at least one succeeds, for every
\* list, every outcome assignment and every completion order.
C1_ReadinessStatus ==
    hpc = "done" =>
        /\ (AllFail => rstatus = StatusServiceUnavailable)
        /\ (SomeOK => rstatus = StatusOK)

\* C1 witness: a 200 from the concurrent handler although the first bucket
\* fails and only the last of several succeeds.
C1_Witness ==
    /\ rrev = "conc"
    /\ hpc = "done"
    /\ rstatus = StatusOK
    /\ Len(bucketList) > 1
    /\ \A i \in 1..(Len(bucketList) - 1) : ~fetchOK[bucketList[i]]
    /\ fetchOK[bucketList[Len(bucketList)]]

\* The handler holds a successful result it has received.
GotSuccess == rrev = "conc" /\ hpc \in {"check", "done"} /\ nrecv > 0 /\ ~br.err

\* C2: once the aggregator has consumed a successful result it receives
\* nothing more, and its next step is the return with status 200; that step
\* depends on no probe task.
C2_EarlySuccess ==
    [][GotSuccess =>
          /\ nrecv' = nrecv
          /\ br' = br
          /\ (hpc' # hpc => hpc' = "done" /\ rstatus' = StatusOK)
          /\ (hpc = "check" => ENABLED HandlerCheck)]_vars

\* C2 witness: the handler has returned 200 after a single receive while
\* another probe task is still inside its fetch.
C2_Witness ==
    /\ rrev = "conc"
    /\ hpc = "done"
    /\ rstatus = StatusOK
    /\ nrecv = 1
    /\ \E i \in 1..Len(bucketList) : ppc[i] = "fetching"

\* probe tasks that have sent their result and returned
Terminated == { i \in 1..Len(bucketList) : ppc[i] = "done" }

\* C14: the result channel never holds more than its capacity, the results
\* sent (still buffered or already received) are one per terminated probe
\* task, and a task whose fetch has returned can always send, also after
\* the handler has responded: no task is left blocked on the channel.
C14_SendNeverBlocks ==
    /\ Len(ch) <= ChanCap
    /\ rrev = "conc" => Len(ch) + nrecv = Cardinality(Terminated)
    /\ \A i \in 1..Len(bucketList) : ppc[i] = "fetched" => ENABLED ProbeSend(i)

\* the handler answered on the first result; the other tasks have all sent
\* theirs since and terminated, and their results sit in the buffer
C14_Witness ==
    /\ rrev = "conc"
    /\ Len(bucketList) >= 2
    /\ hpc = "done"
    /\ nrecv = 1
    /\ Terminated = 1..Len(bucketList)
    /\ Len(ch) = Len(bucketList) - 1

\* probe tasks that still owe the channel a result
Pending == { i \in 1..Len(bucketList) : ppc[i] \in {"fetching", "fetched"} }

\* C15: under fair scheduling, with every metadata fetch returning, a
\* /readiness request is eventually answered; the concurrent handler answers
\* only after receiving a result, never receives more results than tasks
\* were launched, and whenever it waits on the channel a result is buffered
\* or some task has yet to send one.
C15_HandlerResponds ==
    /\ [](nrecv <= Len(bucketList))
    /\ []((rrev = "conc" /\ hpc = "done") => nrecv >= 1)
    /\ [](hpc = "recv" => (ch # <<>> \/ Pending # {}))
    /\ ((hpc # "idle") ~> (hpc = "done"))

\* every fetch failed: the handler answered 503 after consuming one result
\* from each of several tasks
C15_Witness ==
    /\ rrev = "conc"
    /\ Len(bucketList) >= 2
    /\ hpc = "done"
    /\ rstatus = StatusServiceUnavailable
    /\ nrecv = Len(bucketList)
    /\ ch = <<>>

----------------------------------------------------------------------------
(* The object dispatcher as a state machine *)

GetFaults == {"none", "attrs", "reader", "readerGone", "isDirectory", "getDir", "sign"}
PutFaults == {"none", "readBody", "write", "close"}

GetRequests ==
    [method : {"GET"}, bucket : {RealBucket}, object : RequestKeys,
     query : {"", "alt=media"}, body : {<<>>}, fault : GetFaults, via : {"router"}]
    \cup
    [method : {"GET", "HEAD"}, bucket : {RealBucket}, object : RequestKeys,
     query : {"", "alt=media", "alt=json"}, body : {<<>>}, fault : {"none"}, via : {"router"}]
    \cup
    [method : {"GET"}, bucket : {GhostBucket}, object : {K_d, K_dS},
     query : {""}, body : {<<>>}, fault : {"none"}, via : {"router"}]

PutRequests ==
    [method : {"PUT"}, bucket : {RealBucket}, object : RequestKeys,
     query : {""}, body : Bodies, fault : PutFaults, via : {"router"}]
    \cup
    [method : {"POST"}, bucket : {RealBucket, GhostBucket}, object : {K_d, K_da},
     query : {""}, body : Bodies, fault : {"none"}, via : {"router"}]

DeleteRequests ==
    [method : {"DELETE"}, bucket : {RealBucket}, object : RequestKeys,
     query : {""}, body : {<<>>}, fault : {"none", "delete"}, via : {"router"}]
    \cup
    [method : {"DELETE"}, bucket : {GhostBucket}, object : {K_d},
     query : {""}, body : {<<>>}, fault : {"none"}, via : {"router"}]

\* a method the object route does not list
OtherRequests(via) ==
    [method : {"PATCH"}, bucket : {RealBucket, GhostBucket}, object : {<<>>, K_d, K_da},
     query : {""}, body : Bodies, fault : {"none"}, via : {via}]

\* GET /healthz, whatever the backend would answer at that moment
HealthzRequests ==
    [method : {"GET"}, bucket : {RealBucket}, object : {<<>>},
     query : {""}, body : {<<>>}, fault : GetFaults, via : {"healthz"}]

\* the readiness prober at rest, for the behaviours of the dispatcher
RIdle ==
    /\ rrev = "conc"
    /\ bucketList = <<1>>
    /\ fetchOK = [b \in BucketNames |-> FALSE]
    /\ ppc = <<"idle">>
    /\ pres = <<NoResponse>>
    /\ ch = <<>>
    /\ hpc = "idle"
    /\ hi = 0
    /\ br = NoResponse
    /\ nrecv = 0
    /\ rstatus = StatusOK

Init ==
    /\ RIdle
    /\ rev \in {1, 2, 3}
    /\ signedUrlGet \in (IF rev = 1 THEN {FALSE} ELSE BOOLEAN)
    /\ store = EmptyStore
    /\ uploaded = EmptyStore
    /\ alive = TRUE
    /\ req = NoRequest
    /\ resp = NoReply

\* what the last successful upload to each name held (history of the HTTP
\* exchanges, independent of the store)
Uploaded(r, reply) ==
    IF r.bucket = RealBucket /\ r.object \in StoreKeys /\ reply.status = StatusOK
    THEN IF r.method \in {"PUT", "POST"} THEN [uploaded EXCEPT ![r.object] = <<r.body>>]
         ELSE IF r.method = "DELETE" THEN [uploaded EXCEPT ![r.object] = <<>>]
         ELSE uploaded
    ELSE uploaded

Serve(r) ==
    /\ alive
    /\ resp.outcome = "none"
    /\ LET res == CASE r.via = "router" ->
                           router(NewResponse, r, store, rev, signedUrlGet)
                    [] r.via = "healthz" ->
                           livenessProbeHandler(NewResponse, r, store)
                    [] OTHER ->
                           proxy(NewResponse, r, store, rev, signedUrlGet)
       IN  /\ req' = r
           /\ resp' = Finish(res)
           /\ store' = res.store
           /\ alive' = (res.outcome # "exit")
           /\ uploaded' = Uploaded(r, Finish(res))
    /\ UNCHANGED <<rev, signedUrlGet>>
    /\ UNCHANGED rvars

Get == \E r \in GetRequests : Serve(r)

Put == \E r \in PutRequests : Serve(r)

Delete == \E r \in DeleteRequests : Serve(r)

\* the router receives a request whose method the object route does not list
Unsupported == \E r \in OtherRequests("router") : Serve(r)

\* proxy run as a bare http.HandlerFunc, the way main_test.go runs handlers
DirectCall == \E r \in OtherRequests("direct") : Serve(r)

\* the router receives GET /healthz
Healthz == \E r \in HealthzRequests : Serve(r)

\* the exchange is over; the server waits for the next request
Complete ==
    /\ alive
    /\ resp.outcome # "none"
    /\ req' = NoRequest
    /\ resp' = NoReply
    /\ UNCHANGED <<rev, signedUrlGet, store, uploaded, alive>>
    /\ UNCHANGED rvars

PNext == Get \/ Put \/ Delete \/ Unsupported \/ DirectCall \/ Healthz \/ Complete

Next == PNext

Spec == Init /\ [][Next]_vars

----------------------------------------------------------------------------
(* Claims about the object dispatcher *)

\* a response to a request that came through the router is in hand
Responded == resp.outcome # "none" /\ req.via = "router"

\* the bucket holds a name that starts with key + "/" (with key itself when
\* key is empty or already ends in "/")
HasChildren(st, bucket, key) ==
    /\ bucket = RealBucket
    /\ \E k \in StoreKeys : st[k] # <<>> /\ HasPrefix(k, DirPrefix(key))

Content(st, key) == st[key][1]

\* a GET of a name the bucket does not hold
GetOfAbsentKey ==
    /\ Responded
    /\ req.method = "GET"
    /\ ~Exists(store, req.bucket, req.object)

MediaGetAfterPut ==
    /\ Responded
    /\ rev = 1
    /\ req.method = "GET"
    /\ req.query = "alt=media"
    /\ req.fault = "none"
    /\ req.bucket = RealBucket
    /\ req.object \in StoreKeys
    /\ uploaded[req.object] # <<>>

\* C4 as claimed: PUT of B then GET with alt=media returns exactly B and a
\* Content-Length header of len(B), the empty body included.
C4_RoundTripLength ==
    MediaGetAfterPut =>
        LET B == uploaded[req.object][1]
        IN  /\ resp.body = <<BytesChunk(B)>>
            /\ resp.header["Content-Length"] = <<FormatInt(Len(B))>>

\* C4: PUT of B then GET with alt=media returns exactly B; the handler sets
\* Content-Length to len(B) when B is not empty and sets no Content-Length
\* when B is empty.
C4_RoundTrip ==
    MediaGetAfterPut =>
        LET B == uploaded[req.object][1]
        IN  /\ resp.status = StatusOK
            /\ resp.body = <<BytesChunk(B)>>
            /\ resp.header["Content-Length"] =
                   (IF Len(B) > 0 THEN <<FormatInt(Len(B))>> ELSE <<>>)

\* C4 witness: a non-empty body came back with its length.
C4_Witness ==
    /\ MediaGetAfterPut
    /\ Len(uploaded[req.object][1]) > 0
    /\ resp.header["Content-Length"] = <<"1">>

\* a GET of an existing object that is served as a file, signed-URL mode
\* off, the backend answering every call
PlainGetOfObject ==
    /\ Responded
    /\ req.method = "GET"
    /\ req.fault = "none"
    /\ ~signedUrlGet
    /\ Exists(store, req.bucket, req.object)
    /\ ~HasChildren(store, req.bucket, req.object)

\* C5: in every revision, a GET of an existing object returns the raw
\* content when alt=media is given and otherwise the JSON attributes with
\* Content-Type application/json.
C5_AltSelectsRepresentation ==
    PlainGetOfObject =>
        IF QueryAlt(req.query) = "media"
        THEN resp.body = <<BytesChunk(Content(store, req.object))>>
        ELSE /\ resp.body = <<JSONChunk([Name |-> req.object,
                                         Size |-> Len(Content(store, req.object))])>>
             /\ resp.header["Content-Type"] = <<"application/json">>

\* a GET or HEAD, in the directory revision, of a non-empty prefix without
\* trailing slash under which the bucket holds names
DirWithoutSlash ==
    /\ Responded
    /\ rev = 3
    /\ req.method \in {"GET", "HEAD"}
    /\ req.fault = "none"
    /\ LacksSlash(req.object)
    /\ HasChildren(store, req.bucket, req.object)

\* C6: a directory request whose prefix lacks the trailing slash is
\* answered by the redirect alone: getDir lists nothing for it and no
\* directory index is written into the response.
C6_RedirectOnly ==
    DirWithoutSlash =>
        /\ resp.status = StatusTemporaryRedirect
        /\ \A i \in 1..Len(resp.ops) : resp.ops[i] # Op("List", req.object)
        /\ \A i \in 1..Len(resp.body) : resp.body[i].kind # "index"

\* a GET, in the directory revision, of a prefix that is empty or ends in
\* "/" and under which the bucket holds names
DirListing ==
    /\ Responded
    /\ rev = 3
    /\ req.method = "GET"
    /\ req.fault = "none"
    /\ ~LacksSlash(req.object)
    /\ HasChildren(store, req.bucket, req.object)

\* the entry C7 expects for name k under prefix
ExpectedEntry(st, k, prefix) ==
    LET rest  == TrimPrefix(k, prefix)
        parts == Split(rest)
    IN  IF Len(parts) = 1
        THEN [RelativePath |-> rest, SizeBytes |-> FormatInt(Len(Content(st, k)))]
        ELSE [RelativePath |-> Append(parts[1], "/"), SizeBytes |-> "-"]

ExpectedEntries(st, prefix) ==
    { ExpectedEntry(st, k, prefix) :
        k \in {x \in StoreKeys : st[x] # <<>> /\ HasPrefix(x, prefix) /\ x # prefix} }

\* C7: a listing holds exactly one entry per distinct immediate child: the
\* remainder with the object's size for a direct child, the first segment
\* suffixed with "/" and the size "-" for deeper names, nothing for the
\* prefix itself.
C7_OneEntryPerChild ==
    DirListing =>
        /\ Len(resp.body) = 1
        /\ resp.body[1].kind = "index"
        /\ LET items == resp.body[1].Items
               shown == { [RelativePath |-> items[i].RelativePath,
                           SizeBytes |-> items[i].SizeBytes] : i \in 1..Len(items) }
           IN  /\ shown = ExpectedEntries(store, req.object)
               /\ Cardinality(shown) = Len(items)

\* a GET, HEAD or DELETE of a non-empty name during which a backend call
\* failed; the last failure is the one the handler had in hand (a failure
\* of the listing inside isDirectory, which discards its error, is left
\* aside)
StorageFailure ==
    /\ Responded
    /\ req.method \in {"GET", "HEAD", "DELETE"}
    /\ req.object # <<>>
    /\ req.fault # "isDirectory"
    /\ resp.errs # <<>>

\* C8: for GET/HEAD and DELETE a storage failure is answered 404 when the
\* object or the bucket is absent and 500 for any other failure.
C8_ErrorMapping ==
    StorageFailure =>
        /\ resp.outcome = "sent"
        /\ resp.status = (IF resp.errs[Len(resp.errs)] \in AbsentErrors
                          THEN StatusNotFound ELSE StatusInternalServerError)

\* a GET or HEAD of an existing object that is not a directory, answered
\* without an error status
ObjectServed ==
    /\ Responded
    /\ req.method \in {"GET", "HEAD"}
    /\ Exists(store, req.bucket, req.object)
    /\ ~(rev = 3 /\ HasChildren(store, req.bucket, req.object))
    /\ resp.outcome = "sent"
    /\ resp.status < 400

\* C9: with signed-URL mode on, every successful GET/HEAD of an existing
\* non-directory object is a 307 to the signed URL of that bucket and key,
\* and no object byte is written; with the mode off no response ever
\* redirects to a signed URL.
C9_SignedRedirect ==
    /\ (signedUrlGet /\ ObjectServed) =>
          /\ resp.status = StatusTemporaryRedirect
          /\ resp.header["Location"] =
                 <<[kind |-> "signed", bucket |-> req.bucket, path |-> req.object]>>
          /\ \A i \in 1..Len(resp.body) : resp.body[i].kind # "bytes"
          /\ resp.header["Content-Length"] = <<>>
    /\ (~signedUrlGet /\ resp.outcome # "none") =>
          \A i \in 1..Len(resp.header["Location"]) :
              resp.header["Location"][i].kind # "signed"

\* C9 witness: the directory revision redirected a GET of an existing
\* object to its signed URL.
C9_Witness ==
    /\ signedUrlGet
    /\ rev = 3
    /\ ObjectServed
    /\ req.method = "GET"
    /\ resp.status = StatusTemporaryRedirect

\* C10: a method the object route does not list gets an error status, the
\* same one every time (405 from the router), and no backend call is made;
\* proxy's own default branch answers 404 "Method Not Allowed".
C10_UnsupportedMethod ==
    (resp.outcome # "none" /\ req.method \notin RouteMethods) =>
        /\ resp.outcome = "sent"
        /\ resp.ops = <<>>
        /\ (req.via = "router" => resp.status = StatusMethodNotAllowed)
        /\ (req.via = "direct" =>
              /\ resp.status = StatusNotFound
              /\ resp.body = <<TextChunk("Method Not Allowed")>>)

\* C10 witness: a PATCH on an object path was turned away by the router
\* while the bucket holds that object.
C10_Witness ==
    /\ resp.outcome = "sent"
    /\ req.method = "PATCH"
    /\ req.via = "router"
    /\ Exists(store, req.bucket, req.object)
    /\ resp.status = StatusMethodNotAllowed

----------------------------------------------------------------------------
\* C11: GET /healthz is answered 200 whatever the backend would answer and
\* whatever requests came before; the handler performs no storage operation
\* and leaves the bucket as it was.
HealthzAnswered == resp.outcome # "none" /\ req.via = "healthz"

C11_HealthzAlways200 ==
    /\ HealthzAnswered =>
          /\ resp.outcome = "sent"
          /\ resp.status = StatusOK
          /\ resp.ops = <<>>
          /\ resp.errs = <<>>
          /\ resp.body = <<>>
    /\ (alive /\ resp.outcome = "none") => ENABLED Healthz

\* /healthz answered while the backend is failing, after earlier uploads
C11_Witness ==
    /\ HealthzAnswered
    /\ req.fault = "attrs"
    /\ resp.status = StatusOK
    /\ store[K_da] # <<>>
    /\ store[K_dx] # <<>>

----------------------------------------------------------------------------
\* C12: the entries of one directory listing have pairwise distinct
\* RelativePath values, whatever names the bucket holds.
C12_DistinctPaths ==
    \A c \in 1..Len(resp.body) :
        resp.body[c].kind = "index" =>
            LET items == resp.body[c].Items
            IN  \A i, j \in 1..Len(items) :
                    i # j => items[i].RelativePath # items[j].RelativePath

----------------------------------------------------------------------------
\* a request through the router during which a backend call failed (a
\* failure of the listing inside isDirectory, which discards its error, is
\* left aside)
BackendCallFailed ==
    /\ Responded
    /\ resp.errs # <<>>
    /\ req.fault # "isDirectory"

\* C13: no storage failure during a request ends or crashes the server: the
\* process stays alive, and a request whose storage call failed is answered
\* with an error response by its own handler.
C13_FailureIsAnswered ==
    /\ alive
    /\ BackendCallFailed =>
          /\ resp.outcome = "sent"
          /\ resp.status \in {StatusNotFound, StatusInternalServerError}

====
